---- MODULE Spec2Model ----
(***************************************************************************)
(* Model of the two recommenders of the warm-start framework:              *)
(*   models/entity2rec/entity2rec.py      (Property, Entity2Rec)           *)
(*   models/pagerank/pagerank_recommender.py                               *)
(*        (construct_collaborative_graph, PageRankRecommender)             *)
(*                                                                         *)
(* Numbers that are floats in the program are exact rationals              *)
(* [num, den] here; 0/0 stands for NaN (numpy's mean of an empty row).     *)
(* The external collaborators (pyltr's LambdaMART, the relatedness         *)
(* provider, networkx's pagerank) are uninterpreted: a trained model's     *)
(* score of a row is the pair <<model id, row>>, a relatedness score and a *)
(* diffusion outcome are inputs of the calling action.                     *)
(***************************************************************************)
EXTENDS Integers, Sequences, FiniteSets, TLC

VARIABLES
    model,            \* Entity2Rec.model
    models,           \* Entity2Rec.models (cluster -> model)
    user_to_cluster,  \* Entity2Rec.user_to_cluster
    nfit,             \* number of LambdaMART objects constructed so far
    disk,             \* the model file read and written by joblib
    ret,              \* the last call on the instance and its outcome
    properties,       \* Entity2Rec.properties
    collab_only,      \* Entity2Rec.collab_only
    content_only,     \* Entity2Rec.content_only
    social_only,      \* Entity2Rec.social_only
    x_test,           \* the feature rows computed for the candidates
    qids_test,        \* the user of each row
    items_test,       \* the candidate item of each row
    slots,            \* per row, the property each feature slot was computed from
    graph,            \* PageRankRecommender.graph
    alpha,            \* PageRankRecommender.alpha
    only_positive,    \* PageRankRecommender.only_positive
    user_ratings,     \* PageRankRecommender.user_ratings
    alpha_hit,        \* the table returned by the last fit that completed
    ncal              \* calibrations (PageRankRecommender.fit calls) so far

lifeVars == <<models, user_to_cluster, disk>>

recVars == <<properties, collab_only, content_only, social_only,
             x_test, qids_test, items_test, slots>>

e2rVars == <<model, models, user_to_cluster, nfit, disk,
             properties, collab_only, content_only, social_only,
             x_test, qids_test, items_test, slots>>

prVars == <<graph, alpha, only_positive, user_ratings, alpha_hit, ncal>>

vars == <<model, models, user_to_cluster, nfit, disk, ret,
          properties, collab_only, content_only, social_only,
          x_test, qids_test, items_test, slots,
          graph, alpha, only_positive, user_ratings, alpha_hit, ncal>>

----------------------------------------------------------------------------
(* Bounds *)

MaxFits == 2      \* LambdaMART objects constructed on one instance
MaxBatch == 2     \* rows of a predict batch
MaxRows == 2      \* candidate rows of the test set
MaxN == 2         \* length asked of recommend
MaxRetyped == 1   \* properties given another typology than the registered one
MaxTraining == 2  \* users of a training set from which a graph is built
MaxRatings == 1   \* ratings of one user of such a training set
MaxCalibrations == 2 \* fit calls on one PageRankRecommender

----------------------------------------------------------------------------
(* Rational arithmetic standing for the program's floats *)

RECURSIVE GCD(_, _)
GCD(a, b) == IF b = 0 THEN a ELSE GCD(b, a % b)

Rat(n, d) ==
    IF d = 0 THEN [num |-> 0, den |-> 0]
    ELSE LET g == GCD(IF n < 0 THEN -n ELSE n, d)
         IN  [num |-> n \div g, den |-> d \div g]

NaN == Rat(0, 0)

RAdd(a, b) == Rat(a.num * b.den + b.num * a.den, a.den * b.den)

RLess(a, b) == a.den # 0 /\ b.den # 0 /\ a.num * b.den < b.num * a.den

RECURSIVE RSum(_)
RSum(s) == IF Len(s) = 0 THEN Rat(0, 1) ELSE RAdd(s[1], RSum(Tail(s)))

\* np.mean of a one-dimensional array
np_mean(s) ==
    IF Len(s) = 0 THEN NaN
    ELSE LET t == RSum(s) IN Rat(t.num, t.den * Len(s))

----------------------------------------------------------------------------
(* Entity2Rec: the ranking model *)

None == [kind |-> "None", id |-> 0, metric |-> "", k |-> 0]

LambdaMART(kind, id, metric, k) ==
    [kind |-> kind, id |-> id, metric |-> metric, k |-> k]

\* Python truthiness of self.model: None is false, an estimator object is true
ModelTruthy(m) == m.kind # "None"

\* Python truthiness of self.user_to_cluster: None and the empty dict are false
DictTruthy(d) == ~d.isNone /\ DOMAIN d.d # {}

NoDict == [isNone |-> TRUE, d |-> <<>>]

Metrics == {"NDCG", "P", "AP"}

BigCutoff == 100000000

\* Entity2Rec.fit: the new value of self.model and the exception raised
fit_refuse_trained(self_model, optimize, N, trainer_ok, id) ==
    LET k == IF N = 0 THEN BigCutoff ELSE N
    IN  IF optimize \notin Metrics \/ ModelTruthy(self_model)
        THEN [model |-> self_model, exc |-> "ValueError"]
        ELSE IF trainer_ok
             THEN [model |-> LambdaMART("trained", id, optimize, k), exc |-> "None"]
             ELSE [model |-> LambdaMART("unfitted", id, optimize, k), exc |-> "TrainerError"]

fit(self_model, optimize, N, trainer_ok, id) ==
    LET k == IF N = 0 THEN BigCutoff ELSE N
    IN  IF optimize \notin Metrics
        THEN [model |-> self_model, exc |-> "ValueError"]
        ELSE IF trainer_ok
             THEN [model |-> LambdaMART("trained", id, optimize, k), exc |-> "None"]
             ELSE [model |-> LambdaMART("unfitted", id, optimize, k), exc |-> "TrainerError"]

\* model.predict(X) of the external ranking model m on the batch X;
\* empty_ok is the library's answer to a batch without rows
model_predict(m, X, empty_ok) ==
    IF m.kind = "None" THEN [val |-> <<>>, exc |-> "AttributeError"]
    ELSE IF m.kind = "unfitted" THEN [val |-> <<>>, exc |-> "NotFittedError"]
    ELSE IF Len(X) = 0 /\ ~empty_ok THEN [val |-> <<>>, exc |-> "ValueError"]
    ELSE [val |-> [i \in 1..Len(X) |-> <<m.id, X[i]>>], exc |-> "None"]

RowMeans(X) == [i \in 1..Len(X) |-> np_mean(X[i])]

\* the loop of the cluster branch of predict, from row i on
RECURSIVE cluster_preds(_, _, _, _, _)
cluster_preds(utc, ms, x, qids, i) ==
    IF i > Len(x) THEN [val |-> <<>>, exc |-> "None"]
    ELSE LET qid == ToString(qids[i])
         IN  IF qid \notin DOMAIN utc.d THEN [val |-> <<>>, exc |-> "KeyError"]
             ELSE IF utc.d[qid] \notin DOMAIN ms THEN [val |-> <<>>, exc |-> "KeyError"]
             ELSE LET one == model_predict(ms[utc.d[qid]], <<x[i]>>, FALSE)
                      rest == cluster_preds(utc, ms, x, qids, i + 1)
                  IN  IF one.exc # "None" THEN [val |-> <<>>, exc |-> one.exc]
                      ELSE IF rest.exc # "None" THEN rest
                      ELSE [val |-> <<one.val>> \o rest.val, exc |-> "None"]

\* Entity2Rec.predict
predict_flat_first(self_model, utc, ms, x, qids, empty_ok) ==
    IF ModelTruthy(self_model) THEN model_predict(self_model, x, empty_ok)
    ELSE IF DictTruthy(utc) THEN cluster_preds(utc, ms, x, qids, 1)
    ELSE [val |-> RowMeans(x), exc |-> "None"]

predict(self_model, utc, ms, x, qids, empty_ok) ==
    IF DictTruthy(utc) THEN cluster_preds(utc, ms, x, qids, 1)
    ELSE IF ModelTruthy(self_model) THEN model_predict(self_model, x, empty_ok)
    ELSE [val |-> RowMeans(x), exc |-> "None"]

\* Entity2Rec.save_model: the new content of the file and the exception raised
save_model_when_fit(self_model, file) ==
    IF ModelTruthy(self_model) THEN [file |-> <<self_model>>, exc |-> "None"]
    ELSE [file |-> file, exc |-> "AttributeError"]

save_model(self_model, file) ==
    IF ~ModelTruthy(self_model) THEN [file |-> <<self_model>>, exc |-> "None"]
    ELSE [file |-> file, exc |-> "AttributeError"]

\* Entity2Rec.load_model: joblib.load of a missing file raises
load_model(self_model, file) ==
    IF Len(file) = 0 THEN [model |-> self_model, exc |-> "FileNotFoundError"]
    ELSE [model |-> file[1], exc |-> "None"]

----------------------------------------------------------------------------
(* Inputs *)

Optimize == Metrics \cup {"MRR"}

Cutoffs == {0, 5}

One == Rat(1, 1)
Zero == Rat(0, 1)

Rows == {<<Zero, One>>, <<One, One>>}

Qids == {1, 2}

Batches == UNION {[1..n -> Rows] : n \in 0..MaxBatch}

Clusters == {"c1", "c2"}

\* the model trained for a cluster
ClusterModel(c) == LambdaMART("trained", IF c = "c1" THEN 101 ELSE 102, "P", 5)

Pretrained == LambdaMART("trained", 100, "P", 5)

RoutingTables ==
    {NoDict} \cup
    {[isNone |-> FALSE, d |-> f] :
        f \in UNION {[K -> Clusters] : K \in {{}, {"1"}, {"1", "2"}}}}

ClusterModels == {[c \in C |-> ClusterModel(c)] : C \in {{"c1"}, {"c1", "c2"}}}

NoCall == [op |-> "init", exc |-> "None", val |-> <<>>, before |-> None,
           x |-> <<>>, q |-> <<>>]

----------------------------------------------------------------------------
(* Entity2Rec: state machine of one instance *)

Feedback == [name |-> "feedback", typology |-> "collaborative"]

NoGraph == [isNone |-> TRUE, nodes |-> {}, edges |-> {}]

NoAlpha == Rat(0, 0)

\* the PageRankRecommender after construction
PRInit(positive) ==
    /\ graph = NoGraph
    /\ alpha = NoAlpha
    /\ only_positive = positive
    /\ user_ratings = <<>>
    /\ alpha_hit = <<>>
    /\ ncal = 0

Init ==
    /\ model = None
    /\ models = <<>>
    /\ user_to_cluster = NoDict
    /\ nfit = 0
    /\ disk \in {<<>>, <<Pretrained>>}
    /\ ret = NoCall
    /\ properties = <<Feedback>>
    /\ collab_only = FALSE /\ content_only = FALSE /\ social_only = FALSE
    /\ x_test = <<>> /\ qids_test = <<>> /\ items_test = <<>> /\ slots = <<>>
    /\ PRInit(FALSE)

Fit ==
    /\ nfit < MaxFits
    /\ \E optimize \in Optimize, N \in Cutoffs, trainer_ok \in BOOLEAN :
         LET r == fit(model, optimize, N, trainer_ok, nfit + 1)
         IN  /\ model' = r.model
             /\ nfit' = IF optimize \in Metrics THEN nfit + 1 ELSE nfit
             /\ ret' = [op |-> "fit", exc |-> r.exc, val |-> <<>>, before |-> model,
                        x |-> <<optimize>>, q |-> <<>>]
    /\ UNCHANGED <<models, user_to_cluster, disk>>
    /\ UNCHANGED <<recVars, prVars>>

Predict ==
    /\ \E x \in Batches :
       \E qids \in [1..Len(x) -> Qids], empty_ok \in IF Len(x) = 0 THEN BOOLEAN ELSE {TRUE} :
         LET r == predict(model, user_to_cluster, models, x, qids, empty_ok)
         IN  ret' = [op |-> "predict", exc |-> r.exc, val |-> r.val, before |-> model,
                     x |-> x, q |-> qids]
    /\ UNCHANGED <<model, models, user_to_cluster, nfit, disk>>
    /\ UNCHANGED <<recVars, prVars>>

SaveModel ==
    /\ LET r == save_model(model, disk)
       IN  /\ disk' = r.file
           /\ ret' = [op |-> "save_model", exc |-> r.exc, val |-> disk, before |-> model,
                      x |-> <<>>, q |-> <<>>]
    /\ UNCHANGED <<model, models, user_to_cluster, nfit>>
    /\ UNCHANGED <<recVars, prVars>>

LoadModel ==
    /\ LET r == load_model(model, disk)
       IN  /\ model' = r.model
           /\ ret' = [op |-> "load_model", exc |-> r.exc, val |-> <<>>, before |-> model,
                      x |-> <<>>, q |-> <<>>]
    /\ UNCHANGED <<models, user_to_cluster, nfit, disk>>
    /\ UNCHANGED <<recVars, prVars>>

\* a caller installs the cluster routing table and the clusters' models
AssignClusters ==
    /\ user_to_cluster = NoDict
    /\ \E utc \in RoutingTables \ {NoDict}, ms \in ClusterModels :
         /\ user_to_cluster' = utc
         /\ models' = ms
    /\ ret' = [op |-> "assign", exc |-> "None", val |-> <<>>, before |-> model,
               x |-> <<>>, q |-> <<>>]
    /\ UNCHANGED <<model, nfit, disk>>
    /\ UNCHANGED <<recVars, prVars>>

\* the calls of the claim about the train-once lifecycle
Next == Fit \/ Predict \/ SaveModel \/ LoadModel

Spec == Init /\ [][Next]_vars

\* predict on an instance with or without routing table and flat model
NextDispatch == LoadModel \/ AssignClusters \/ Predict

SpecDispatch == Init /\ [][NextDispatch]_vars

----------------------------------------------------------------------------
(* Entity2Rec: properties, feature vectors and recommend *)

Typologies == {"collaborative", "content", "social"}

\* Property.typology setter: the new property and the exception raised
typology_setter(prop, value) ==
    IF value # "collaborative" /\ value # "content" /\ value # "social"
    THEN [prop |-> prop, exc |-> "ValueError"]
    ELSE [prop |-> [name |-> prop.name, typology |-> value], exc |-> "None"]

\* Entity2Rec._set_properties: relations is the set of relations in the order
\* the set is iterated
set_properties(relations) ==
    [i \in 1..Len(relations) |-> [name |-> relations[i], typology |-> "content"]]
        \o <<Feedback>>

OfTypology(props, t) == SelectSeq(props, LAMBDA prop : prop.typology = t)

\* Entity2Rec.collab_similarities; rs is the relatedness provider
collab_similarities(props, user, item, rs) ==
    LET collaborative_properties == OfTypology(props, "collaborative")
    IN  [i \in 1..Len(collaborative_properties) |->
            rs[<<collaborative_properties[i].name, user, item>>]]

\* Entity2Rec.content_similarities
content_similarities(props, user, item, items_liked_by_user, rs) ==
    LET content_properties == OfTypology(props, "content")
    IN  IF Len(items_liked_by_user) = 0
        THEN [i \in 1..Len(content_properties) |-> Zero]
        ELSE [i \in 1..Len(content_properties) |->
                np_mean([j \in 1..Len(items_liked_by_user) |->
                    rs[<<content_properties[i].name, items_liked_by_user[j], item>>]])]

\* Entity2Rec.social_similarities
social_similarities(props, user, item, users_liking_the_item, rs) ==
    LET social_properties == OfTypology(props, "social")
    IN  IF Len(users_liking_the_item) = 0
        THEN [i \in 1..Len(social_properties) |-> Zero]
        ELSE [i \in 1..Len(social_properties) |->
                np_mean([j \in 1..Len(users_liking_the_item) |->
                    rs[<<social_properties[i].name, users_liking_the_item[j], user>>]])]

\* Entity2Rec.compute_user_item_features
compute_user_item_features(props, c_only, t_only, s_only, user, item, items_liked_by_user, users_liking_the_item, rs) ==
    LET collab_scores == collab_similarities(props, user, item, rs)
        content_scores == content_similarities(props, user, item, items_liked_by_user, rs)
        social_scores == social_similarities(props, user, item, users_liking_the_item, rs)
    IN  IF c_only THEN collab_scores
        ELSE IF t_only THEN content_scores
        ELSE IF s_only THEN social_scores
        ELSE collab_scores \o content_scores \o social_scores

\* the calls compute_user_item_features makes to the relatedness provider
ProviderCalls(props, user, item, items_liked_by_user, users_liking_the_item) ==
    {<<props[i].name, user, item>> :
        i \in {k \in 1..Len(props) : props[k].typology = "collaborative"}}
    \cup {<<props[i].name, items_liked_by_user[j], item>> :
        i \in {k \in 1..Len(props) : props[k].typology = "content"},
        j \in 1..Len(items_liked_by_user)}
    \cup {<<props[i].name, users_liking_the_item[j], user>> :
        i \in {k \in 1..Len(props) : props[k].typology = "social"},
        j \in 1..Len(users_liking_the_item)}

\* np.argmax of a one-dimensional array: the first index of the maximum, 0 for
\* the ValueError numpy raises on an empty array
np_argmax(row) ==
    IF Len(row) = 0 THEN 0
    ELSE CHOOSE i \in 1..Len(row) :
            /\ \A j \in 1..Len(row) : ~RLess(row[i], row[j])
            /\ \A j \in 1..(i - 1) : RLess(row[j], row[i])

\* heapq.nlargest(n, keys, key = preds[x]): sorted(keys, reverse = True)[:n],
\* which keeps equal keys in their order in the iterable
RECURSIVE nlargest(_, _, _)
nlargest(n, keys, preds) ==
    IF n <= 0 \/ keys = {} THEN <<>>
    ELSE LET best == CHOOSE i \in keys :
                        /\ \A j \in keys : ~RLess(preds[i], preds[j])
                        /\ \A j \in keys : j < i => RLess(preds[j], preds[i])
         IN  <<best>> \o nlargest(n - 1, keys \ {best}, preds)

\* the rows of the test set whose query id is user (np.where)
RECURSIVE where(_, _, _)
where(qids, user, i) ==
    IF i > Len(qids) THEN <<>>
    ELSE (IF qids[i] = user THEN <<i>> ELSE <<>>) \o where(qids, user, i + 1)

\* Entity2Rec.recommend; lib_scores are the scores the trained model gives
\* the user's rows and empty_ok its answer to a batch without rows
recommend(self_model, props, user, qids, x, items, N, average, lib_scores, empty_ok) ==
    LET indeces == where(qids, user, 1)
        features == [i \in 1..Len(indeces) |-> x[indeces[i]]]
        candidates == [i \in 1..Len(indeces) |-> items[indeces[i]]]
        scored == IF ~average
                  THEN LET r == model_predict(self_model, features, empty_ok)
                       IN  [val |-> IF r.exc = "None" THEN lib_scores ELSE <<>>,
                            exc |-> r.exc]
                  ELSE [val |-> RowMeans(features), exc |-> "None"]
        preds == scored.val
        top == [i \in 1..Len(candidates) |-> np_argmax(features[i])]
    IN  IF scored.exc # "None" THEN [val |-> <<>>, preds |-> <<>>, exc |-> scored.exc]
        ELSE IF \E i \in 1..Len(candidates) : top[i] = 0
        THEN [val |-> <<>>, preds |-> preds, exc |-> "ValueError"]
        ELSE IF \E i \in 1..Len(candidates) : top[i] > Len(props)
        THEN [val |-> <<>>, preds |-> preds, exc |-> "IndexError"]
        ELSE LET candidates_index ==
                    [i \in 1..Len(candidates) |-> <<candidates[i], props[top[i]].name>>]
                 recs_index == nlargest(N, 1..Len(candidates), preds)
             IN  [val |-> [i \in 1..Len(recs_index) |-> candidates_index[recs_index[i]]],
                  preds |-> preds, exc |-> "None"]

----------------------------------------------------------------------------
(* Inputs of the feature and recommendation calls *)

\* the relations of the triples file in the order the set is iterated; the
\* names are symbols, so one order of each set stands for all of them
RelationOrders == {<<>>, <<"r1">>}

Users == {"u1", "u2"}

ItemOfRow == <<"i1", "i2", "i3">>

LikedItems == {<<>>, <<"a", "b">>}

LikingUsers == {<<>>, <<"v">>}

Relatedness == {Zero, One}

ModelScores == {Zero, One}

\* the feature slots of a row and the property each was computed from
SlotNames(props, c_only, t_only, s_only) ==
    LET names(t) == LET ps == OfTypology(props, t) IN [i \in 1..Len(ps) |-> ps[i].name]
    IN  IF c_only THEN names("collaborative")
        ELSE IF t_only THEN names("content")
        ELSE IF s_only THEN names("social")
        ELSE names("collaborative") \o names("content") \o names("social")

----------------------------------------------------------------------------
(* Entity2Rec: features and recommendations of one instance *)

InitRec ==
    /\ model = None
    /\ models = <<>>
    /\ user_to_cluster = NoDict
    /\ nfit = 0
    /\ disk = <<Pretrained>>
    /\ ret = NoCall
    /\ \E relations \in RelationOrders : properties = set_properties(relations)
    /\ collab_only \in BOOLEAN /\ content_only \in BOOLEAN /\ social_only \in BOOLEAN
    /\ x_test = <<>> /\ qids_test = <<>> /\ items_test = <<>> /\ slots = <<>>
    /\ PRInit(FALSE)

\* the properties whose typology is no longer the one they were registered with
Retyped(props) ==
    {i \in 1..Len(props) :
        props[i].typology # (IF props[i].name = "feedback" THEN "collaborative" ELSE "content")}

\* prop.typology = value on a registered property, before any feature is computed
SetTypology ==
    /\ x_test = <<>>
    /\ \E i \in 1..Len(properties), value \in Typologies \cup {"item"} :
         LET r == typology_setter(properties[i], value)
         IN  /\ Cardinality(Retyped([properties EXCEPT ![i] = r.prop])) <= MaxRetyped
             /\ properties' = [properties EXCEPT ![i] = r.prop]
             /\ ret' = [op |-> "typology", exc |-> r.exc, val |-> <<>>, before |-> model,
                        x |-> <<i, value>>, q |-> <<>>]
    /\ UNCHANGED <<model, nfit, collab_only, content_only, social_only,
                   x_test, qids_test, items_test, slots>>
    /\ UNCHANGED <<lifeVars, prVars>>

\* the features of one more candidate of a user are computed and added to the test set
ComputeFeatures ==
    /\ Len(x_test) < MaxRows
    /\ \E user \in Users, liked \in LikedItems, liking \in LikingUsers :
         LET item == ItemOfRow[Len(x_test) + 1]
         IN  \E rs \in [ProviderCalls(properties, user, item, liked, liking) -> Relatedness] :
               LET features == compute_user_item_features(properties, collab_only,
                                   content_only, social_only, user, item, liked, liking, rs)
               IN  /\ x_test' = Append(x_test, features)
                   /\ qids_test' = Append(qids_test, user)
                   /\ items_test' = Append(items_test, item)
                   /\ slots' = Append(slots,
                         SlotNames(properties, collab_only, content_only, social_only))
                   /\ ret' = [op |-> "features", exc |-> "None", val |-> features,
                              before |-> model, x |-> <<user, item>>, q |-> <<>>]
    /\ UNCHANGED <<model, nfit, properties, collab_only, content_only, social_only>>
    /\ UNCHANGED <<lifeVars, prVars>>

Recommend ==
    /\ \E user \in Users, N \in 0..MaxN, average \in BOOLEAN :
         LET n == Len(where(qids_test, user, 1))
         IN  \E empty_ok \in (IF average \/ n > 0 THEN {TRUE} ELSE BOOLEAN),
                lib_scores \in (IF average THEN {<<>>} ELSE [1..n -> ModelScores]) :
               LET r == recommend(model, properties, user, qids_test, x_test, items_test,
                                  N, average, lib_scores, empty_ok)
               IN  ret' = [op |-> "recommend", exc |-> r.exc, val |-> r.val,
                           before |-> model, x |-> <<user, N, average>>, q |-> r.preds]
    /\ UNCHANGED <<model, nfit>>
    /\ UNCHANGED recVars
    /\ UNCHANGED <<lifeVars, prVars>>

\* the test set is built and recommendations are asked of it
NextRec == ComputeFeatures \/ Recommend \/ LoadModel

SpecRec == InitRec /\ [][NextRec]_vars

\* the properties are configured and feature vectors are computed
NextFeat == SetTypology \/ ComputeFeatures

SpecFeat == InitRec /\ [][NextFeat]_vars

----------------------------------------------------------------------------
(* construct_collaborative_graph and PageRankRecommender *)

\* a training or validation rating
Rating(e, r) == [e_idx |-> e, rating |-> r]

\* networkx Graph.add_node
add_node(g, n) == [g EXCEPT !.nodes = @ \cup {n}]

\* networkx Graph.add_edge of a simple undirected graph
add_edge(g, a, b) == [g EXCEPT !.nodes = @ \cup {a, b}, !.edges = @ \cup {{a, b}}]

\* f'user_{user}'
user_node(user) == "user_" \o user

\* the filter dropped: every rating becomes an edge
RECURSIVE add_ratings_unfiltered(_, _, _, _, _)
add_ratings_unfiltered(g, user_id, ratings, positive, j) ==
    IF j > Len(ratings) THEN g
    ELSE add_ratings_unfiltered(
            add_edge(add_node(g, ratings[j].e_idx), user_id, ratings[j].e_idx),
            user_id, ratings, positive, j + 1)

\* the loop over the ratings of one user, from rating j on
RECURSIVE add_ratings(_, _, _, _, _)
add_ratings(g, user_id, ratings, positive, j) ==
    IF j > Len(ratings) THEN g
    ELSE IF positive /\ ratings[j].rating # 1
    THEN add_ratings(g, user_id, ratings, positive, j + 1)
    ELSE add_ratings(add_edge(add_node(g, ratings[j].e_idx), user_id, ratings[j].e_idx),
                     user_id, ratings, positive, j + 1)

\* the loop over the users of the training set, from entry i on
RECURSIVE add_users(_, _, _, _)
add_users(g, training, positive, i) ==
    IF i > Len(training) THEN g
    ELSE LET user_id == user_node(training[i][1])
         IN  add_users(add_ratings(add_node(g, user_id), user_id, training[i][2], positive, 1),
                       training, positive, i + 1)

\* construct_collaborative_graph(graph, training, only_positive)
construct_collaborative_graph(g, training, positive) ==
    add_users([g EXCEPT !.isNone = FALSE], training, positive, 1)

EmptyGraph == [isNone |-> FALSE, nodes |-> {}, edges |-> {}]

\* construct_graph of the collaborative recommender: a fresh graph is built
\* from the training set
construct_graph(training, positive) ==
    construct_collaborative_graph(EmptyGraph, training, positive)

\* the first loop of fit: self.user_ratings[user] = ratings, from entry i on
RECURSIVE record_ratings(_, _, _)
record_ratings(ur, training, i) ==
    IF i > Len(training) THEN ur
    ELSE record_ratings(
            [u \in DOMAIN ur \cup {training[i][1]} |->
                IF u = training[i][1] THEN training[i][2] ELSE ur[u]],
            training, i + 1)

\* PageRankRecommender.get_source_nodes
get_source_nodes(ur, positive, user) ==
    IF user \notin DOMAIN ur THEN [val |-> <<>>, exc |-> "KeyError"]
    ELSE LET kept == SelectSeq(ur[user], LAMBDA r : ~(positive /\ r.rating # 1))
         IN  [val |-> [j \in 1..Len(kept) |-> kept[j].e_idx], exc |-> "None"]

Range(seq) == {seq[j] : j \in 1..Len(seq)}

\* PageRankRecommender._scores: the nodes of the graph among items, each with
\* the mass the diffusion from source_nodes gives it
scores(g, a, source_nodes, items) ==
    [n \in {m \in g.nodes : m \in Range(items)} |-> <<a, source_nodes, n>>]

DefaultK == 10

\* PageRankRecommender._validate: the validation item is among the k
\* candidates of greatest mass; in_top is the diffusion engine's verdict when
\* more than k candidates are scored
validate(g, a, source_nodes, validation_item, negatives, k, in_top) ==
    LET scored == DOMAIN scores(g, a, source_nodes, <<validation_item>> \o negatives)
    IN  IF validation_item \notin scored THEN FALSE
        ELSE IF Cardinality(scored) <= k THEN TRUE
        ELSE in_top

\* np.linspace(0.1, 1, 10)[:-1]
alpha_ranges == [i \in 1..9 |-> Rat(i, 10)]

\* the loop of fit over the validation set for the alpha of index i, from
\* entry j on, with the hits, the count and the scoring calls so far in acc;
\* engine[j] are the alphas where the engine ranks the validation item of
\* entry j in the top k when more than k candidates are scored
RECURSIVE validate_users(_, _, _, _, _, _, _, _)
validate_users(ur, positive, g, i, validation, engine, j, acc) ==
    IF j > Len(validation) THEN acc
    ELSE LET src == get_source_nodes(ur, positive, validation[j][1])
         IN  IF src.exc # "None" THEN [acc EXCEPT !.exc = src.exc]
             ELSE IF Len(src.val) = 0
             THEN validate_users(ur, positive, g, i, validation, engine, j + 1, acc)
             ELSE validate_users(ur, positive, g, i, validation, engine, j + 1,
                    [acc EXCEPT
                       !.hits = @ + (IF validate(g, alpha_ranges[i], src.val,
                                                 validation[j][2][1], validation[j][2][2],
                                                 DefaultK,
                                                 j \in DOMAIN engine /\ i \in engine[j])
                                     THEN 1 ELSE 0),
                       !.count = @ + 1,
                       !.calls = @ \cup {<<i, j>>}])

\* hit_ratio = hits / count and alpha_hit[alpha] = hit_ratio
record_ratio(acc, r) ==
    IF r.exc # "None" THEN [acc EXCEPT !.calls = r.calls, !.exc = r.exc]
    ELSE IF r.count = 0 THEN [acc EXCEPT !.calls = r.calls, !.exc = "ZeroDivisionError"]
    ELSE [acc EXCEPT !.table = Append(@, Rat(r.hits, r.count)),
                     !.counts = Append(@, r.count),
                     !.calls = r.calls]

\* the loop of fit over alpha_ranges, from index i on: the table of hit
\* ratios, the denominators, the scoring calls made and the exception raised
RECURSIVE try_alphas(_, _, _, _, _, _, _)
try_alphas(ur, positive, g, validation, engine, i, acc) ==
    IF i > Len(alpha_ranges) \/ acc.exc # "None" THEN acc
    ELSE try_alphas(ur, positive, g, validation, engine, i + 1,
            record_ratio(acc,
                validate_users(ur, positive, g, i, validation, engine, 1,
                    [hits |-> 0, count |-> 0, calls |-> acc.calls, exc |-> "None"])))

\* max(alpha_hit.items(), key = operator.itemgetter(1))[0]: the first alpha
\* of the table with the greatest hit ratio
best_alpha_last(table) ==
    alpha_ranges[CHOOSE i \in 1..Len(table) :
        /\ \A j \in 1..Len(table) : ~RLess(table[i], table[j])
        /\ \A j \in (i + 1)..Len(table) : RLess(table[j], table[i])]

best_alpha(table) ==
    alpha_ranges[CHOOSE i \in 1..Len(table) :
        /\ \A j \in 1..Len(table) : ~RLess(table[i], table[j])
        /\ \A j \in 1..(i - 1) : RLess(table[j], table[i])]

\* PageRankRecommender.fit
pr_fit(ur, positive, a, training, validation, engine) ==
    LET ur2 == record_ratings(ur, training, 1)
        g == construct_graph(training, positive)
        r == try_alphas(ur2, positive, g, validation, engine, 1,
                        [table |-> <<>>, counts |-> <<>>, calls |-> {}, exc |-> "None"])
    IN  [user_ratings |-> ur2, graph |-> g,
         alpha |-> IF r.exc = "None" THEN best_alpha(r.table) ELSE a,
         table |-> r.table, counts |-> r.counts, calls |-> r.calls, exc |-> r.exc]

\* PageRankRecommender.predict
pr_predict(ur, positive, g, a, user, items) ==
    LET src == get_source_nodes(ur, positive, user)
    IN  IF src.exc # "None" THEN [val |-> <<>>, passed |-> <<>>, exc |-> src.exc]
        ELSE IF g.isNone THEN [val |-> <<>>, passed |-> <<a, src.val>>, exc |-> "EngineError"]
        ELSE [val |-> scores(g, a, src.val, items), passed |-> <<a, src.val>>,
              exc |-> "None"]

----------------------------------------------------------------------------
(* Inputs of the graph construction and of the calibration *)

PRUsers == {"u1", "u2"}

Entities == {"e1", "e2"}

\* the rating lists of one user
RECURSIVE RatingLists(_)
RatingLists(n) ==
    IF n = 0 THEN {<<>>}
    ELSE LET shorter == RatingLists(n - 1)
         IN  shorter \cup
             {Append(l, Rating(e, r)) : l \in {s \in shorter : Len(s) = n - 1},
                                        e \in Entities, r \in {0, 1}}

\* the training sets
RECURSIVE Trainings(_, _)
Trainings(n, m) ==
    IF n = 0 THEN {<<>>}
    ELSE LET shorter == Trainings(n - 1, m)
         IN  shorter \cup
             {Append(t, <<u, l>>) : t \in {s \in shorter : Len(s) = n - 1},
                                    u \in PRUsers, l \in RatingLists(m)}

\* a catalogue of eleven items a further user rated positively: enough
\* candidates for the top-k cut of the validation to leave one out
Catalogue == [j \in 1..11 |-> "b" \o ToString(j)]

CatalogueUser == <<"u0", [j \in 1..Len(Catalogue) |-> Rating(Catalogue[j], 1)]>>

\* the held-out item of a validation user with its negative samples: with
\* ten negatives the top-k cut leaves a candidate out, without any it cannot
Heldout == {<<Catalogue[1], Tail(Catalogue)>>, <<Catalogue[1], <<>>>>}

\* the training sets of a calibration
CalibrationTrainings ==
    {<<>>,
     <<<<"u1", <<Rating("e1", 0)>>>>>>,
     <<CatalogueUser, <<"u1", <<>>>>>>,
     <<CatalogueUser, <<"u1", <<Rating("e1", 1)>>>>>>,
     <<CatalogueUser, <<"u1", <<Rating("e1", 1)>>>>, <<"u2", <<Rating("e2", 1)>>>>>>}

\* the validation sets: at most one entry for each user
Validations ==
    {<<>>} \cup {<<<<"u1", h>>>> : h \in Heldout}
           \cup {<<<<"u1", h1>>, <<"u2", h2>>>> : h1 \in Heldout, h2 \in Heldout}

\* the alphas at which the engine may rank a held-out item in the top k
Verdicts == {{}, 2..9, {9}}

----------------------------------------------------------------------------
(* Graph construction *)

InitGraph ==
    /\ model = None /\ models = <<>> /\ user_to_cluster = NoDict
    /\ nfit = 0 /\ disk = <<>> /\ ret = NoCall
    /\ properties = <<Feedback>>
    /\ collab_only = FALSE /\ content_only = FALSE /\ social_only = FALSE
    /\ x_test = <<>> /\ qids_test = <<>> /\ items_test = <<>> /\ slots = <<>>
    /\ \E positive \in BOOLEAN : PRInit(positive)

\* a graph is built from a training set
Build ==
    /\ graph.isNone
    /\ \E training \in Trainings(MaxTraining, MaxRatings) :
         /\ graph' = construct_graph(training, only_positive)
         /\ ret' = [op |-> "build", exc |-> "None", val |-> <<>>, before |-> None,
                    x |-> training, q |-> <<>>]
    /\ UNCHANGED <<alpha, only_positive, user_ratings, alpha_hit, ncal>>
    /\ UNCHANGED e2rVars

\* the training set of the last build is added to the graph once more
Rebuild ==
    /\ ret.op = "build"
    /\ graph' = construct_collaborative_graph(graph, ret.x, only_positive)
    /\ ret' = [ret EXCEPT !.op = "rebuild", !.val = graph]
    /\ UNCHANGED <<alpha, only_positive, user_ratings, alpha_hit, ncal>>
    /\ UNCHANGED e2rVars

NextGraph == Build \/ Rebuild

SpecGraph == InitGraph /\ [][NextGraph]_vars

----------------------------------------------------------------------------
(* PageRankRecommender: calibration and prediction of one instance *)

PRFit ==
    /\ ncal < MaxCalibrations
    /\ ncal' = ncal + 1
    /\ \E training \in CalibrationTrainings, validation \in Validations :
         LET ur2 == record_ratings(user_ratings, training, 1)
             open == {j \in 1..Len(validation) :
                        /\ validation[j][1] \in DOMAIN ur2
                        /\ Len(validation[j][2][2]) >= DefaultK}
         IN  \E engine \in [open -> Verdicts] :
               \E r \in {pr_fit(user_ratings, only_positive, alpha, training,
                               validation, engine)} :
                   /\ user_ratings' = r.user_ratings
                   /\ graph' = r.graph
                   /\ alpha' = r.alpha
                   /\ alpha_hit' = IF r.exc = "None" THEN r.table ELSE alpha_hit
                   /\ ret' = [op |-> "pr_fit", exc |-> r.exc, val |-> r.table,
                              before |-> None, x |-> validation,
                              q |-> <<r.counts, r.calls>>]
    /\ UNCHANGED only_positive
    /\ UNCHANGED e2rVars

PRPredict ==
    /\ \E user \in PRUsers, items \in {<<"e1", Catalogue[1]>>} :
         LET r == pr_predict(user_ratings, only_positive, graph, alpha, user, items)
         IN  ret' = [op |-> "pr_predict", exc |-> r.exc, val |-> r.val, before |-> None,
                     x |-> <<user, items>>, q |-> r.passed]
    /\ UNCHANGED prVars
    /\ UNCHANGED e2rVars

NextPR == PRFit \/ PRPredict

SpecPR == InitGraph /\ [][NextPR]_vars

----------------------------------------------------------------------------
(* Claims about the lifecycle of one Entity2Rec instance *)

IsFitStep == ret'.op = "fit"

Routed(i) ==
    /\ ToString(ret.q[i]) \in DOMAIN user_to_cluster.d
    /\ user_to_cluster.d[ToString(ret.q[i])] \in DOMAIN models

----------------------------------------------------------------------------
(* Claims about feature vectors and recommend *)

\* the row of the test set that holds candidate item c
RowOf(c) == CHOOSE j \in 1..Len(items_test) : items_test[j] = c

\* the position of row j among the rows of its user
PosOf(j) == Cardinality({i \in 1..j : qids_test[i] = qids_test[j]})

\* slot i holds the greatest score of the row and is the first to hold it
IsArgMax(row, i) ==
    /\ i \in 1..Len(row)
    /\ \A k \in 1..Len(row) : ~RLess(row[i], row[k])
    /\ \A k \in 1..(i - 1) : RLess(row[k], row[i])

\* C4: the property name returned with a candidate is the name of the
\* property whose score is in the arg-max slot (first on ties) of the
\* candidate's feature vector as compute_user_item_features laid it out.
C4_DominantTag ==
    (ret.op = "recommend" /\ ret.exc = "None") =>
        \A k \in 1..Len(ret.val) :
            LET j == RowOf(ret.val[k][1])
            IN  \E i \in 1..Len(x_test[j]) :
                  /\ IsArgMax(x_test[j], i)
                  /\ ret.val[k][2] = slots[j][i]

FlagsSet == Cardinality({f \in {<<1, collab_only>>, <<2, content_only>>, <<3, social_only>>} : f[2]})

\* C5: without override the vector has a slot for every property, with one
\* override it has the slots of that typology, and a configuration with more
\* than one override is rejected with an error.
C5_ViewOverrides ==
    ret.op = "features" =>
        /\ FlagsSet > 1 => ret.exc # "None"
        /\ FlagsSet = 0 => Len(ret.val) = Len(properties)
        /\ (FlagsSet = 1 /\ collab_only) =>
              Len(ret.val) = Len(OfTypology(properties, "collaborative"))
        /\ (FlagsSet = 1 /\ content_only) =>
              Len(ret.val) = Len(OfTypology(properties, "content"))
        /\ (FlagsSet = 1 /\ social_only) =>
              Len(ret.val) = Len(OfTypology(properties, "social"))

\* the candidates of the last recommend call, as positions among the user's rows
Picked == [k \in 1..Len(ret.val) |-> PosOf(RowOf(ret.val[k][1]))]

UserRows == {j \in 1..Len(qids_test) : qids_test[j] = ret.x[1]}

Min(a, b) == IF a < b THEN a ELSE b

\* the result of the last recommend call is a stable top-N selection by score
SelectionOk ==
    /\ Len(ret.val) = Min(ret.x[2], Cardinality(UserRows))
    /\ \A k \in 1..Len(ret.val) : qids_test[RowOf(ret.val[k][1])] = ret.x[1]
    /\ \A k, l \in 1..Len(ret.val) :
          k < l => /\ ~RLess(ret.q[Picked[k]], ret.q[Picked[l]])
                   /\ (ret.q[Picked[k]] = ret.q[Picked[l]] => Picked[k] < Picked[l])
    /\ \A k \in 1..Len(ret.val) :
          \A p \in 1..Cardinality(UserRows) :
             (\A l \in 1..Len(ret.val) : Picked[l] # p) =>
                 ~RLess(ret.q[Picked[k]], ret.q[p])

\* C6: recommend returns min(N, rows of the user) candidates in descending
\* order of score, equal scores in row order, none left out that scores higher
\* than one returned; for a user without rows it returns the empty list and
\* raises nothing.
C6_TopN ==
    ret.op = "recommend" =>
        /\ ret.exc = "None"
        /\ SelectionOk
        /\ UserRows = {} => ret.val = <<>>

\* whenever recommend returns, what it returns is the stable top-N selection
RecommendSelection ==
    (ret.op = "recommend" /\ ret.exc = "None") => SelectionOk

\* with scores taken from the feature means, recommend raises only on rows
\* without feature slots
RecommendAverage ==
    (ret.op = "recommend" /\ ret.x[3]) =>
        (ret.exc # "None") = (\E j \in UserRows : Len(x_test[j]) = 0)

----------------------------------------------------------------------------
(* Claims about the calibration of the PageRankRecommender *)

\* user u has no seed entity: no recorded rating of u passes the filter
ZeroSeed(u) ==
    \/ u \notin DOMAIN user_ratings
    \/ \A j \in 1..Len(user_ratings[u]) :
          only_positive /\ user_ratings[u][j].rating # 1

\* the entries of the validation set of the last fit whose user has a seed
Eligible == {j \in 1..Len(ret.x) : ~ZeroSeed(ret.x[j][1])}

\* C7: in fit, a validation user without seed entities, one without any
\* training rating included, is skipped without error: no scoring call is
\* made for that user and the user is counted in no denominator.
C7_SeedlessSkipped ==
    ret.op = "pr_fit" =>
        /\ ret.exc # "KeyError"
        /\ \A c \in ret.q[2] : c[2] \in Eligible
        /\ ret.exc = "None" =>
             \A i \in 1..Len(ret.q[1]) : ret.q[1][i] = Cardinality(Eligible)

\* C8: fit never divides hits by a count of zero: a validation set without
\* eligible user is detected and reported instead.
C8_NoZeroDivision ==
    ret.op = "pr_fit" => ret.exc # "ZeroDivisionError"

\* alpha is the first alpha of the table with the greatest hit ratio
ChosenFrom(table) ==
    \E i \in 1..Len(table) :
        /\ alpha = alpha_ranges[i]
        /\ \A j \in 1..Len(table) : ~RLess(table[i], table[j])
        /\ \A j \in 1..(i - 1) : table[j] # table[i]

\* C9: when fit completes, alpha is a key of the returned table whose hit
\* ratio no other entry exceeds, the first such in grid order; and that alpha
\* is what every later predict passes to the diffusion scorer, until a fit
\* completes again.
C9_AlphaSelection ==
    /\ (ret.op = "pr_fit" /\ ret.exc = "None") =>
          /\ alpha_hit = ret.val
          /\ Len(ret.val) = Len(alpha_ranges)
    /\ alpha_hit # <<>> => ChosenFrom(alpha_hit)
    /\ alpha_hit = <<>> => alpha = NoAlpha
    /\ (ret.op = "pr_predict" /\ ret.q # <<>>) => ret.q[1] = alpha

C9_Witness ==
    /\ ret.op = "pr_predict"
    /\ ret.exc = "None"
    /\ ncal = 2
    /\ Len(alpha_hit) = 9
    /\ alpha = alpha_ranges[2]
    /\ alpha_hit[2] = alpha_hit[9]
    /\ RLess(alpha_hit[1], alpha_hit[2])
    /\ ret.q[1] = alpha_ranges[2]

----------------------------------------------------------------------------
(* Claims about construct_collaborative_graph *)

\* C10: the graph built from a training set on a fresh graph has exactly the
\* edges (user_<u>, e) for the ratings of e by u that pass the only_positive
\* filter, a node user_<u> for every training user, no node for an entity
\* that only filtered ratings mention, and is the same when the training set
\* is added once more.
C10_Graph ==
    ret.op \in {"build", "rebuild"} =>
        LET kept == {<<ret.x[i][1], ret.x[i][2][j].e_idx>> :
                        <<i, j>> \in {p \in (1..Len(ret.x)) \X (1..(MaxRatings + 1)) :
                            /\ p[2] <= Len(ret.x[p[1]][2])
                            /\ (only_positive => ret.x[p[1]][2][p[2]].rating = 1)}}
        IN  /\ graph.edges = {{"user_" \o k[1], k[2]} : k \in kept}
            /\ graph.nodes = {"user_" \o ret.x[i][1] : i \in 1..Len(ret.x)}
                                \cup {k[2] : k \in kept}
            /\ \A e \in graph.edges : Cardinality(e) = 2
            /\ ret.op = "rebuild" => graph = ret.val

C10_Witness ==
    /\ ret.op = "rebuild"
    /\ only_positive
    /\ Len(ret.x) = 2
    /\ \E i \in 1..Len(ret.x) :
          /\ Len(ret.x[i][2]) = 1
          /\ ret.x[i][2][1].rating = 0
          /\ ret.x[i][2][1].e_idx \notin graph.nodes
          /\ "user_" \o ret.x[i][1] \in graph.nodes
    /\ graph.edges # {}

====
